---- MODULE Spec2Model ----
(***************************************************************************)
(* Package terr (github.com/alnvdl/terr): traced errors.                   *)
(*                                                                         *)
(* Two revisions of terr.go are modelled side by side, selected by the     *)
(* variable rev, which is fixed by Init:                                   *)
(*   "terr.go"  - src/terr.go: TracedError interface, TraceWithLocation,   *)
(*                children found with the assertion child.(TracedError);   *)
(*   "part_004" - src/unnamed/part_004 lines 1-174: ErrorTracer interface, *)
(*                Trace with options, children found with the assertion    *)
(*                child is a pointer to tracedError (concrete type).       *)
(* A third revision, "example_test.go", is known only from its examples    *)
(* (src/example_test.go): it adds TraceSkip, which SpecSkip models from    *)
(* the specification on top of the operations of part_004.                 *)
(*                                                                         *)
(* Error values live in a heap (a sequence of objects, the index being the *)
(* pointer).  Strings are sequences of tokens, concatenation is \o.        *)
(***************************************************************************)
EXTENDS Integers, Sequences, FiniteSets, TLC

VARIABLES heap, calls, cost, rev, procs

vars == <<heap, calls, cost, rev, procs>>

\* The total number of construction calls plus operands handed to them.
MaxCost == 4

\* The number of goroutines of a concurrent caller.
NumProcs == 2

NIL == 0        \* the nil interface value
PLAIN == -1     \* a formatting argument that is not an error (e.g. an int)

Revs == {"terr.go", "part_004"}

-----------------------------------------------------------------------------
(* Heap objects.  kind is the dynamic type:                                *)
(*   "customError"   a caller's own error type with an Error method        *)
(*   "traceTreeNode" a caller's type that implements Error, Location and   *)
(*                   Children (the tree-node interface) outside terr       *)
(*   "errorString"   what fmt.Errorf returns without %w                    *)
(*   "wrapError"     what fmt.Errorf returns with one %w                   *)
(*   "wrapErrors"    what fmt.Errorf returns with several %w               *)
(*   "tracedError"   the node type of package terr                         *)

Obj(kind, msg, wrapped, err, file, line, children, childrenNil) ==
    [kind |-> kind, msg |-> msg, wrapped |-> wrapped, err |-> err,
     file |-> file, line |-> line, children |-> children,
     childrenNil |-> childrenNil]

\* type tracedError struct { error; location; children []TracedError }
tracedError(err, loc, children, childrenNil) ==
    Obj("tracedError", <<>>, <<>>, err, loc.file, loc.line, children, childrenNil)

\* type location struct { file string; line int }
location(file, line) == [file |-> file, line |-> line]

customError(msg) == Obj("customError", msg, <<>>, NIL, "", 0, <<>>, TRUE)

traceTreeNode(msg, file, line, children) ==
    Obj("traceTreeNode", msg, <<>>, NIL, file, line, children, FALSE)

Ids(h) == 1..Len(h)

Alloc(h, o) == [heap |-> Append(h, o), ret |-> Len(h) + 1]

-----------------------------------------------------------------------------
(* Strings.                                                                *)

Digit(d) == <<"0", "1", "2", "3", "4", "5", "6", "7", "8", "9">>[d + 1]

RECURSIVE Itoa(_)
\* %d of a non-negative int
Itoa(n) == IF n < 10 THEN <<Digit(n)>> ELSE Itoa(n \div 10) \o <<Digit(n % 10)>>

RECURSIVE Repeat(_, _)
\* strings.Repeat(s, count)
Repeat(s, count) == IF count <= 0 THEN <<>> ELSE s \o Repeat(s, count - 1)

RECURSIVE Join(_, _)
\* strings.Join(elems, sep)
Join(elems, sep) ==
    IF Len(elems) = 0 THEN <<>>
    ELSE IF Len(elems) = 1 THEN elems[1]
    ELSE elems[1] \o sep \o Join(Tail(elems), sep)

RECURSIVE Concat(_)
\* append(a, b...) folded over a sequence of sequences
Concat(ss) == IF Len(ss) = 0 THEN <<>> ELSE ss[1] \o Concat(Tail(ss))

-----------------------------------------------------------------------------
(* Dynamic types and the host's error protocol (package errors).           *)

IsError(h, a) == a \in Ids(h)

\* child.(TracedError): the value implements Error, Location and Children
implementsTracedError(h, a) ==
    IsError(h, a) /\ h[a].kind \in {"tracedError", "traceTreeNode"}

\* child.(*tracedError): the value is a node of this package
isPtrTracedError(h, a) == IsError(h, a) /\ h[a].kind = "tracedError"

\* the value implements fmt.Formatter
isFormatter(h, a) == IsError(h, a) /\ h[a].kind = "tracedError"

\* the types a caller can name as the target of errors.As: two concrete
\* types of the caller and four interface types ("MultiUnwrapper" is
\* interface{ Unwrap() []error })
TargetTypes ==
    {"customError", "traceTreeNode", "error", "TracedError", "Formatter",
     "MultiUnwrapper"}

\* reflect: Type.AssignableTo
AssignableTo(kind, T) ==
    CASE T = "error" -> TRUE
      [] T = "TracedError" -> kind \in {"tracedError", "traceTreeNode"}
      [] T = "Formatter" -> kind = "tracedError"
      [] T = "MultiUnwrapper" -> kind = "wrapErrors"
      [] OTHER -> kind = T

RECURSIVE MsgOf(_, _), errorsUnwrap(_, _), is(_, _, _), errorsAs(_, _, _)

\* Error() decorated with the node's own file
Error_Decorated(h, e) == MsgOf(h, h[e].err) \o <<" @ ", h[e].file>>

\* func (e *tracedError) Error() string
Error(h, e) == MsgOf(h, h[e].err)

\* err.Error() by dynamic dispatch
MsgOf(h, e) == IF h[e].kind = "tracedError" THEN Error(h, e) ELSE h[e].msg

\* Unwrap returning the underlying error itself
Unwrap_Underlying(h, e) == h[e].err

\* func (e *tracedError) Unwrap() error
Unwrap(h, e) == errorsUnwrap(h, h[e].err)

\* errors.Unwrap: calls Unwrap() error if the type has it, else nil
errorsUnwrap(h, err) ==
    IF ~IsError(h, err) THEN NIL
    ELSE CASE h[err].kind = "wrapError" -> h[err].wrapped[1]
           [] h[err].kind = "tracedError" -> Unwrap(h, err)
           [] OTHER -> NIL

\* errors.Is
errorsIs(h, err, target) ==
    IF err = NIL \/ target = NIL THEN err = target ELSE is(h, err, target)

\* Is comparing the node instead of delegating to the underlying error
Is_NodeOnly(h, e, target) == e = target

\* func (e *tracedError) Is(target error) bool
Is(h, e, target) == errorsIs(h, h[e].err, target)

\* the loop of errors.Is (every type of the model is comparable)
is(h, err, target) ==
    IF err = target THEN TRUE
    ELSE IF h[err].kind = "tracedError" /\ Is(h, err, target) THEN TRUE
    ELSE CASE h[err].kind \in {"wrapError", "tracedError"} ->
                LET u == errorsUnwrap(h, err)
                IN  IF u = NIL THEN FALSE ELSE is(h, u, target)
           [] h[err].kind = "wrapErrors" ->
                \E i \in DOMAIN h[err].wrapped : is(h, h[err].wrapped[i], target)
           [] OTHER -> FALSE

NotFound == [ok |-> FALSE, val |-> NIL]

\* As that never finds anything
As_Never(h, e, T) == NotFound

\* func (e *tracedError) As(target interface{}) bool; T is the target's type
\* and val what the target holds afterwards
As(h, e, T) == errorsAs(h, h[e].err, T)

RECURSIVE firstAs(_, _, _)
\* the loop over Unwrap() []error in errors.As
firstAs(h, errs, T) ==
    IF Len(errs) = 0 THEN NotFound
    ELSE LET r == errorsAs(h, errs[1], T)
         IN  IF r.ok THEN r ELSE firstAs(h, Tail(errs), T)

\* errors.As
errorsAs(h, err, T) ==
    IF ~IsError(h, err) THEN NotFound
    ELSE IF AssignableTo(h[err].kind, T) THEN [ok |-> TRUE, val |-> err]
    ELSE IF h[err].kind = "tracedError" /\ As(h, err, T).ok THEN As(h, err, T)
    ELSE CASE h[err].kind \in {"wrapError", "tracedError"} ->
                LET u == errorsUnwrap(h, err)
                IN  IF u = NIL THEN NotFound ELSE errorsAs(h, u, T)
           [] h[err].kind = "wrapErrors" -> firstAs(h, h[err].wrapped, T)
           [] OTHER -> NotFound

\* func (e *tracedError) Location() (string, int); the caller's tree-node
\* type has the same method
Location(h, e) == location(h[e].file, h[e].line)

\* func (e *tracedError) Children() []TracedError
Children(h, e) == h[e].children

-----------------------------------------------------------------------------
(* Formatting (package fmt) and the tree renderer.                         *)

\* what a failed type assertion leaves instead of a result
Panic == <<<<"panic">>>>

RECURSIVE treeRepr(_, _, _), treeReprChildren(_, _, _)

\* te := err.(TracedError) in src/terr.go, te := err.(*tracedError) in
\* part_004: whether the assertion of the renderer succeeds
assertNode(h, err) ==
    IF rev = "terr.go" THEN implementsTracedError(h, err) ELSE isPtrTracedError(h, err)

\* treeRepr appending the node's own line after the lines of its children
treeRepr_OwnLineLast(h, err, depth) ==
    IF ~assertNode(h, err) THEN Panic
    ELSE LET loc == Location(h, err)
         IN  treeReprChildren(h, Children(h, err), depth)
             \o <<Repeat(<<"\t">>, depth) \o MsgOf(h, err) \o <<" @ ">>
                    \o (<<loc.file>> \o <<":">> \o Itoa(loc.line))>>

\* func treeRepr(err error, depth int) []string
treeRepr(h, err, depth) ==
    IF ~assertNode(h, err) THEN Panic
    ELSE LET loc == Location(h, err)
         IN  <<Repeat(<<"\t">>, depth) \o MsgOf(h, err) \o <<" @ ">>
                 \o (<<loc.file>> \o <<":">> \o Itoa(loc.line))>>
             \o treeReprChildren(h, Children(h, err), depth)

\* the loop recursing with depth instead of depth+1
treeReprChildren_SameDepth(h, children, depth) ==
    IF Len(children) = 0 THEN <<>>
    ELSE treeRepr(h, children[1], depth)
             \o treeReprChildren(h, Tail(children), depth)

\* for _, child := range children { append(locations, treeRepr(child, depth+1)...) }
treeReprChildren(h, children, depth) ==
    IF Len(children) = 0 THEN <<>>
    ELSE treeRepr(h, children[1], depth + 1)
             \o treeReprChildren(h, Tail(children), depth)

\* no width, no precision
NoNum == -1

\* what a fmt.State tells a Formatter: Flag(c) for the flags, Width() and
\* Precision()
fmtState(flags, wid, prec) == [flags |-> flags, wid |-> wid, prec |-> prec]

\* the state of a directive without flags, width and precision
NoFlags == fmtState({}, NoNum, NoNum)

FlagChars == <<" ", "+", "-", "#", "0">>

\* fmt.FormatString(state, verb): the directive as text
FormatString(f, verb) ==
    <<"%">> \o SelectSeq(FlagChars, LAMBDA c : c \in f.flags)
        \o (IF f.wid # NoNum THEN Itoa(f.wid) ELSE <<>>)
        \o (IF f.prec # NoNum THEN <<".">> \o Itoa(f.prec) ELSE <<>>)
        \o <<verb>>

IsDigit(c) == c \in {"0", "1", "2", "3", "4", "5", "6", "7", "8", "9"}

\* the value of a decimal digit
DigitVal(c) ==
    CASE c = "0" -> 0 [] c = "1" -> 1 [] c = "2" -> 2 [] c = "3" -> 3 [] c = "4" -> 4
      [] c = "5" -> 5 [] c = "6" -> 6 [] c = "7" -> 7 [] c = "8" -> 8 [] c = "9" -> 9

RECURSIVE parseFlags(_, _, _)
\* doPrintf: the flags of the directive t from position i on; a zero after a
\* minus is dropped, a minus drops the zero
parseFlags(t, i, fl) ==
    IF i <= Len(t) /\ t[i] \in {" ", "+", "-", "#", "0"}
    THEN parseFlags(t, i + 1,
             CASE t[i] = "0" -> IF "-" \in fl THEN fl ELSE fl \cup {"0"}
               [] t[i] = "-" -> (fl \ {"0"}) \cup {"-"}
               [] OTHER -> fl \cup {t[i]})
    ELSE [flags |-> fl, i |-> i]

RECURSIVE parsenum(_, _, _)
\* parsenum: the decimal number of t from position i on, NoNum without digits
parsenum(t, i, acc) ==
    IF i <= Len(t) /\ IsDigit(t[i])
    THEN parsenum(t, i + 1, (IF acc = NoNum THEN 0 ELSE acc) * 10 + DigitVal(t[i]))
    ELSE [num |-> acc, i |-> i]

\* doPrintf reading one directive: flags, width, precision, verb
ParseDirective(t) ==
    LET a == parseFlags(t, 2, {})
        w == parsenum(t, a.i, NoNum)
        p == IF w.i <= Len(t) /\ t[w.i] = "."
             THEN LET n == parsenum(t, w.i + 1, NoNum)
                  IN  [num |-> IF n.num = NoNum THEN 0 ELSE n.num, i |-> n.i]
             ELSE [num |-> NoNum, i |-> w.i]
    IN  [f |-> fmtState(a.flags, w.num, p.num), verb |-> t[p.i]]

\* the text s printed under the state f and the verb: itself for a plain %v
\* or %s, otherwise padded, quoted or encoded as the directive says
fmtString(f, verb, s) ==
    IF f = NoFlags /\ verb \in {"v", "s"} THEN s
    ELSE <<"{">> \o Tail(FormatString(f, verb)) \o <<":">> \o s \o <<"}">>

\* reflect.TypeOf(arg).String()
TypeName(h, a) == <<"*", h[a].kind>>

\* printValue: the value printed by reflection, its methods not called
printValue(h, a) ==
    IF h[a].kind = "tracedError" THEN <<"&{", "0x">> \o Itoa(h[a].err) \o <<"}">>
    ELSE <<"&{">> \o h[a].msg \o <<"}">>

\* badVerb for an error operand: %!verb(type=value)
badVerb(h, a, verb) ==
    <<"%!", verb, "(">> \o TypeName(h, a) \o <<"=">> \o printValue(h, a) \o <<")">>

RECURSIVE printArg(_, _, _, _, _)

\* Format rebuilding the directive from the verb alone, the flags lost
Format_NoFlags(h, e, f, verb) ==
    IF verb = "@" THEN Join(treeRepr(h, e, 0), <<"\n">>)
    ELSE LET d == ParseDirective(<<"%", verb>>)
         IN  printArg(h, h[e].err, d.f, d.verb, FALSE)

\* func (e *tracedError) Format(f fmt.State, verb rune)
Format(h, e, f, verb) ==
    IF verb = "@" THEN Join(treeRepr(h, e, 0), <<"\n">>)
    ELSE LET d == ParseDirective(FormatString(f, verb))
         IN  printArg(h, h[e].err, d.f, d.verb, FALSE)

\* handleMethods of fmt for an error operand: %w is an error outside Errorf
\* and %v inside; a Formatter formats itself; %#v prints Go syntax; the verbs
\* valid for strings print Error(); the others print the value by reflection
handleMethods(h, a, f, verb, wrapErrs) ==
    IF verb = "w" /\ ~wrapErrs THEN badVerb(h, a, verb)
    ELSE LET v == IF verb = "w" THEN "v" ELSE verb
         IN  IF isFormatter(h, a) THEN Format(h, a, f, v)
             ELSE IF v = "v" /\ "#" \in f.flags
                  THEN fmtString(f, v, printValue(h, a))
             ELSE IF v \in {"v", "s", "x", "X", "q"} THEN fmtString(f, v, MsgOf(h, a))
             ELSE badVerb(h, a, v)

\* printArg of fmt: one operand under the state f and a verb; wrapErrs is set
\* inside fmt.Errorf.  %T and %p are done first, before any method is tried.
printArg(h, a, f, verb, wrapErrs) ==
    CASE a = NIL -> IF verb \in {"T", "v"} THEN fmtString(f, "s", <<"<nil>">>)
                    ELSE <<"%!", verb, "(<nil>)">>
      [] a = PLAIN -> IF verb = "v" THEN fmtString(f, "v", <<"42">>)
                      ELSE IF verb = "T" THEN fmtString(f, "s", <<"int">>)
                      ELSE <<"%!", verb, "(int=42)">>
      [] verb = "T" -> fmtString(f, "s", TypeName(h, a))
      [] verb = "p" -> fmtString(f, "p", <<"0x">> \o Itoa(a))
      [] OTHER -> handleMethods(h, a, f, verb, wrapErrs)

\* one operand of fmt.Errorf under a verb without flags
fmtValue(h, a, verb) == printArg(h, a, NoFlags, verb, TRUE)

\* A format is a literal followed by one verb per operand, each after a
\* space; args[i] = [a |-> operand, verb |-> "w" or "v"].
RECURSIVE fmtArgs(_, _)
fmtArgs(h, args) ==
    IF Len(args) = 0 THEN <<>>
    ELSE <<" ">> \o fmtValue(h, args[1].a, args[1].verb) \o fmtArgs(h, Tail(args))

\* p.wrappedErrs of fmt.Errorf: the operands given with %w that are errors
wrappedErrs(h, args) ==
    SelectSeq(args, LAMBDA x : x.verb = "w" /\ IsError(h, x.a))

\* fmt.Errorf(format, a...): the error value it returns (not yet allocated)
fmtErrorf(h, lit, args) ==
    LET s == lit \o fmtArgs(h, args)
        w == wrappedErrs(h, args)
        ws == [i \in 1..Len(w) |-> w[i].a]
    IN  CASE Len(w) = 0 -> Obj("errorString", s, <<>>, NIL, "", 0, <<>>, TRUE)
          [] Len(w) = 1 -> Obj("wrapError", s, ws, NIL, "", 0, <<>>, TRUE)
          [] OTHER -> Obj("wrapErrors", s, ws, NIL, "", 0, <<>>, TRUE)

\* the operands of a call, as the variadic a ...interface{}
Operands(args) == [i \in 1..Len(args) |-> args[i].a]

-----------------------------------------------------------------------------
(* Location capture.  A stack is a sequence of frames, innermost first.    *)

\* runtime.Caller(skip) seen from the function at stk[1]
Caller(stk, skip) ==
    IF skip + 1 <= Len(stk)
    THEN [file |-> stk[skip + 1].file, line |-> stk[skip + 1].line, ok |-> TRUE]
    ELSE [file |-> "", line |-> 0, ok |-> FALSE]

\* getCallerLocation asking for its own caller, runtime.Caller(1)
getCallerLocation_Skip1(stk) ==
    LET c == Caller(stk, 1) IN location(c.file, c.line)

\* getCallerLocation checking ok and putting a placeholder for a frame that
\* was not recovered
getCallerLocation_Placeholder(stk) ==
    LET c == Caller(stk, 2)
    IN  IF c.ok THEN location(c.file, c.line) ELSE location("???", 0)

\* func getCallerLocation() location: runtime.Caller(2), ok ignored
getCallerLocation(stk) ==
    LET c == Caller(stk, 2) IN location(c.file, c.line)

\* a call site whose frame the runtime cannot recover
Unresolved == [file |-> "?", line |-> 0]

\* the stack inside getCallerLocation when an exported function of the
\* package was called from the call site `site`
StackIn(fn, site) ==
    <<[file |-> "terr.go", line |-> fn - 1], [file |-> "terr.go", line |-> fn]>>
        \o (IF site = Unresolved THEN <<>> ELSE <<site>>)

-----------------------------------------------------------------------------
(* src/terr.go: construction operations.                                   *)

\* func filterErrors(objs []interface{}) []error
filterErrors(h, objs) == SelectSeq(objs, LAMBDA o : IsError(h, o))

\* newTracedError searching each child's chain with errors.As instead of
\* asserting the child's own type
newTracedError_AsSearch(h, err, children, loc) ==
    LET found == [i \in 1..Len(children) |-> errorsAs(h, children[i], "TracedError")]
        hits == SelectSeq(found, LAMBDA r : r.ok)
        terrs == [i \in 1..Len(hits) |-> hits[i].val]
    IN  tracedError(err, loc, terrs, Len(terrs) = 0)

\* func newTracedError(err error, children []error, loc location) error
\* the node it allocates: terrs stays nil when nothing is appended
newTracedError(h, err, children, loc) ==
    LET terrs == SelectSeq(children, LAMBDA child : implementsTracedError(h, child))
    IN  tracedError(err, loc, terrs, Len(terrs) = 0)

\* Newf taking as children only the operands embedded with %w
Newf_WrappedOnly(h, lit, args, site) ==
    LET e == Alloc(h, fmtErrorf(h, lit, args))
    IN  Alloc(e.heap,
              newTracedError(e.heap, e.ret,
                             filterErrors(e.heap, Operands(wrappedErrs(h, args))),
                             getCallerLocation(StackIn(131, site))))

\* Newf building its underlying error from the formatted text alone, as
\* errors.New(fmt.Sprintf(format, a...)) would
Newf_Sprintf(h, lit, args, site) ==
    LET e == Alloc(h, [fmtErrorf(h, lit, args) EXCEPT !.kind = "errorString",
                                                      !.wrapped = <<>>])
    IN  Alloc(e.heap,
              newTracedError(e.heap, e.ret, filterErrors(e.heap, Operands(args)),
                             getCallerLocation(StackIn(131, site))))

\* func Newf(format string, a ...interface{}) error
Newf(h, lit, args, site) ==
    LET e == Alloc(h, fmtErrorf(h, lit, args))
    IN  Alloc(e.heap,
              newTracedError(e.heap, e.ret, filterErrors(e.heap, Operands(args)),
                             getCallerLocation(StackIn(131, site))))

\* Trace without its nil check
Trace_NoNilCheck(h, err, site) ==
    Alloc(h, newTracedError(h, err, <<err>>, getCallerLocation(StackIn(142, site))))

\* Trace handing no child to newTracedError
Trace_NoChild(h, err, site) ==
    IF err = NIL THEN [heap |-> h, ret |-> NIL]
    ELSE Alloc(h, newTracedError(h, err, <<>>, getCallerLocation(StackIn(142, site))))

\* Trace of an error that is already a node moving that node to the new call
\* site before it wraps it
Trace_Relocate(h, err, site) ==
    IF err = NIL THEN [heap |-> h, ret |-> NIL]
    ELSE LET loc == getCallerLocation(StackIn(142, site))
             h2 == IF isPtrTracedError(h, err)
                   THEN [h EXCEPT ![err].file = loc.file, ![err].line = loc.line]
                   ELSE h
         IN  Alloc(h2, newTracedError(h2, err, <<err>>, loc))

\* func Trace(err error) error
Trace(h, err, site) ==
    IF err = NIL THEN [heap |-> h, ret |-> NIL]
    ELSE Alloc(h, newTracedError(h, err, <<err>>,
                                 getCallerLocation(StackIn(142, site))))

\* TraceWithLocation keeping the line and dropping the file
TraceWithLocation_LineOnly(h, err, file, line) ==
    IF err = NIL THEN [heap |-> h, ret |-> NIL]
    ELSE Alloc(h, newTracedError(h, err, <<err>>, location("", line)))

\* func TraceWithLocation(err error, file string, line int) error
TraceWithLocation(h, err, file, line) ==
    IF err = NIL THEN [heap |-> h, ret |-> NIL]
    ELSE Alloc(h, newTracedError(h, err, <<err>>, location(file, line)))

\* func TraceTree(err error) TracedError
TraceTree(h, err) == IF implementsTracedError(h, err) THEN err ELSE NIL

-----------------------------------------------------------------------------
(* src/unnamed/part_004, lines 1-174: the revision with options.           *)

\* newTracedError leaving the location of the node unset
newTracedErrorAny_NoLoc(h, err, children, loc) ==
    LET cs == SelectSeq(children, LAMBDA child : isPtrTracedError(h, child))
    IN  tracedError(err, location("", 0), cs, Len(cs) = 0)

\* func newTracedError(err error, children []any, loc location) *tracedError
newTracedErrorAny(h, err, children, loc) ==
    LET cs == SelectSeq(children, LAMBDA child : isPtrTracedError(h, child))
    IN  tracedError(err, loc, cs, Len(cs) = 0)

\* func Newf(format string, a ...any) error
NewfAny(h, lit, args, site) ==
    LET e == Alloc(h, fmtErrorf(h, lit, args))
    IN  Alloc(e.heap,
              newTracedErrorAny(e.heap, e.ret, Operands(args),
                                getCallerLocation(StackIn(105, site))))

\* func WithLocation(file string, line int) TraceOption
WithLocation(file, line) ==
    [opt |-> "WithLocation", file |-> file, line |-> line, children |-> <<>>]

\* func WithChildren(children []error) TraceOption
WithChildren(children) ==
    [opt |-> "WithChildren", file |-> "", line |-> 0, children |-> children]

\* WithChildren assigning the explicit children instead of appending them
ApplyOption_Replace(h, o, e) ==
    IF o.opt = "WithLocation"
    THEN [e EXCEPT !.file = o.file, !.line = o.line]
    ELSE LET cs == SelectSeq(o.children, LAMBDA child : isPtrTracedError(h, child))
         IN  [e EXCEPT !.children = cs, !.childrenNil = Len(cs) = 0]

RECURSIVE AppendNew(_, _)
\* append the elements of cs that the sequence does not hold yet
AppendNew(children, cs) ==
    IF Len(cs) = 0 THEN children
    ELSE AppendNew(IF \E j \in DOMAIN children : children[j] = cs[1]
                   THEN children ELSE Append(children, cs[1]),
                   Tail(cs))

\* WithChildren skipping the explicit children that the node already has
ApplyOption_Dedup(h, o, e) ==
    IF o.opt = "WithLocation"
    THEN [e EXCEPT !.file = o.file, !.line = o.line]
    ELSE LET cs == SelectSeq(o.children, LAMBDA child : isPtrTracedError(h, child))
         IN  [e EXCEPT !.children = AppendNew(@, cs), !.childrenNil = @ /\ Len(cs) = 0]

\* opt(terr): the body of the closure a TraceOption is, applied to node e
ApplyOption(h, o, e) ==
    IF o.opt = "WithLocation"
    THEN [e EXCEPT !.file = o.file, !.line = o.line]
    ELSE LET cs == SelectSeq(o.children, LAMBDA child : isPtrTracedError(h, child))
         IN  [e EXCEPT !.children = @ \o cs, !.childrenNil = @ /\ Len(cs) = 0]

RECURSIVE ApplyOptions(_, _, _)

\* the loop applying the last option first
ApplyOptions_LastFirst(h, opts, e) ==
    IF Len(opts) = 0 THEN e
    ELSE ApplyOption(h, opts[1], ApplyOptions(h, Tail(opts), e))

\* for _, opt := range opts { opt(terr) }
ApplyOptions(h, opts, e) ==
    IF Len(opts) = 0 THEN e
    ELSE ApplyOptions(h, Tail(opts), ApplyOption(h, opts[1], e))

\* Trace applying its options to the traced error it was given instead of
\* the node it builds
TraceOpts_OnArgument(h, err, opts, site) ==
    IF err = NIL THEN [heap |-> h, ret |-> NIL]
    ELSE LET h2 == IF isPtrTracedError(h, err)
                   THEN [h EXCEPT ![err] = ApplyOptions(h, opts, h[err])]
                   ELSE h
         IN  Alloc(h2, newTracedErrorAny(h2, err, <<err>>,
                                         getCallerLocation(StackIn(142, site))))

\* func Trace(err error, opts ...TraceOption) error
TraceOpts(h, err, opts, site) ==
    IF err = NIL THEN [heap |-> h, ret |-> NIL]
    ELSE Alloc(h, ApplyOptions(h, opts,
                      newTracedErrorAny(h, err, <<err>>,
                                        getCallerLocation(StackIn(142, site)))))

\* func TraceTree(err error) ErrorTracer
TraceTreePtr(h, err) == IF isPtrTracedError(h, err) THEN err ELSE NIL

-----------------------------------------------------------------------------
(* The revision of src/example_test.go: TraceSkip.  Its terr.go is not     *)
(* among the sources; the operation follows the specification: Trace with  *)
(* the skip depth "caller-supplied skip + fixed internal offset".          *)

\* captureLocation(skip): runtime.Caller(skip + 2) seen from the capture
\* function, which the exported function calls
getCallerLocationSkip(stk, skip) ==
    LET c == Caller(stk, skip + 2) IN location(c.file, c.line)

\* func TraceSkip(err error, skip int) error; above is the stack above
\* TraceSkip, its direct caller first
TraceSkip(h, err, skip, above) ==
    IF err = NIL THEN [heap |-> h, ret |-> NIL]
    ELSE Alloc(h, newTracedErrorAny(h, err, <<err>>,
                      getCallerLocationSkip(
                          <<[file |-> "terr.go", line |-> 0],
                            [file |-> "terr.go", line |-> 1]>> \o above, skip)))

-----------------------------------------------------------------------------
(* The caller: a straight-line program, one call per source line, that     *)
(* holds the two errors it made itself and every value the calls returned. *)

\* the caller's own errors: two *customError and a leaf *traceTreeNode
BaseHeap ==
    <<customError(<<"test">>), traceTreeNode(<<"node">>, "tree.go", 7, <<>>),
      customError(<<"other">>)>>

Rets(cs) == {cs[i].ret : i \in DOMAIN cs} \ {NIL}

\* the error values the caller can pass on
Held == Ids(BaseHeap) \cup Rets(calls)

Verbs == {"w", "v"}

\* what the caller passes as a formatting operand
ArgValues == Held \cup {PLAIN}

Args(n) == [1..n -> [a : ArgValues, verb : Verbs]]

\* the next call site
Site == [file |-> "main.go", line |-> 9 + Len(calls)]

\* the literal text of the format used at a call site
Lit(site) == <<"m">> \o Itoa(site.line)

Call(op, err, args, opts, loc, site, ret) ==
    [op |-> op, err |-> err, args |-> args, opts |-> opts, loc |-> loc,
     site |-> site, ret |-> ret]

NoLoc == location("", 0)

Procs == 1..NumProcs

\* a goroutine of the caller: where it stands inside the call it is making
\* (pc), the call, what the call holds in its local variables (the underlying
\* error und, the location at, the children and options still to be handled,
\* the slice terrs, the new node, the renderer's stack and output) and, for a
\* read, the value read (got) and the value the same read gave in one piece
\* when it began (expect)
Proc(pc, call, und, at, todo) ==
    [pc |-> pc, call |-> call, und |-> und, at |-> at, todo |-> todo,
     todoOpts |-> call.opts, terrs |-> <<>>, node |-> NIL, target |-> NIL,
     stack |-> <<>>, out |-> <<>>, got |-> <<>>, expect |-> <<>>]

\* a goroutine between two calls
IdleProc == Proc("idle", Call("", NIL, <<>>, <<>>, NoLoc, NoLoc, NIL), NIL, NoLoc, <<>>)

\* the sequential caller is one goroutine making one call at a time
Sequential == procs = [p \in Procs |-> IdleProc]

Record(c, r, k) ==
    /\ heap' = r.heap
    /\ calls' = Append(calls, [c EXCEPT !.ret = r.ret])
    /\ cost' = cost + k
    /\ UNCHANGED <<rev, procs>>

Init ==
    /\ heap = BaseHeap
    /\ calls = <<>>
    /\ cost = 0
    /\ rev \in Revs
    /\ Sequential

\* err := terr.Newf(format, a...)
DoNewf ==
    \E n \in 0..(MaxCost - cost - 1) : \E args \in Args(n) :
        Record(Call("Newf", NIL, args, <<>>, NoLoc, Site, NIL),
               IF rev = "terr.go" THEN Newf(heap, Lit(Site), args, Site)
               ELSE NewfAny(heap, Lit(Site), args, Site),
               1 + n)

\* err := fmt.Errorf(format, a...), the caller using the host directly
DoErrorf ==
    \E n \in 0..(MaxCost - cost - 1) : \E args \in Args(n) :
        Record(Call("Errorf", NIL, args, <<>>, NoLoc, Site, NIL),
               Alloc(heap, fmtErrorf(heap, Lit(Site), args)),
               1 + n)

\* err := terr.Trace(e)
DoTrace ==
    /\ cost + 2 <= MaxCost
    /\ \E e \in Held \cup {NIL} :
        Record(Call("Trace", e, <<>>, <<>>, NoLoc, Site, NIL),
               IF rev = "terr.go" THEN Trace(heap, e, Site)
               ELSE TraceOpts(heap, e, <<>>, Site),
               2)

ExplicitLocations == {location("custom.go", 123), location("", 0)}

\* err := terr.TraceWithLocation(e, file, line)
DoTraceWithLocation ==
    /\ rev = "terr.go"
    /\ cost + 2 <= MaxCost
    /\ \E e \in Held \cup {NIL} : \E loc \in ExplicitLocations :
        Record(Call("TraceWithLocation", e, <<>>, <<>>, loc, Site, NIL),
               TraceWithLocation(heap, e, loc.file, loc.line),
               2)

\* the options a caller builds: a location, or a list of up to n children
Options(n) ==
    {WithLocation(loc.file, loc.line) : loc \in ExplicitLocations}
    \cup UNION {{WithChildren(cs) : cs \in [1..k -> Held \cup {NIL}]} : k \in 0..n}

OptionCost(o) == 1 + Len(o.children)

\* err := terr.Trace(e, opts...) with one or two options; the call costs one
\* more than its options
DoTraceOpts ==
    /\ rev = "part_004"
    /\ \E e \in Held \cup {NIL} :
       \E o1 \in Options(MaxCost - cost - 2) :
          \/ /\ cost + 1 + OptionCost(o1) <= MaxCost
             /\ Record(Call("TraceOpts", e, <<>>, <<o1>>, NoLoc, Site, NIL),
                       TraceOpts(heap, e, <<o1>>, Site),
                       1 + OptionCost(o1))
          \/ \E o2 \in Options(MaxCost - cost - 2 - OptionCost(o1)) :
                /\ cost + 1 + OptionCost(o1) + OptionCost(o2) <= MaxCost
                /\ Record(Call("TraceOpts", e, <<>>, <<o1, o2>>, NoLoc, Site, NIL),
                          TraceOpts(heap, e, <<o1, o2>>, Site),
                          1 + OptionCost(o1) + OptionCost(o2))

Next ==
    \/ DoNewf
    \/ DoErrorf
    \/ DoTrace
    \/ DoTraceWithLocation
    \/ DoTraceOpts

Spec == Init /\ [][Next]_vars

\* the program of SpecChain has already made two traced errors, on lines 9
\* and 10:  t1 := terr.Newf("m9"); t2 := terr.Newf("m10")
ChainSites == <<[file |-> "main.go", line |-> 9], [file |-> "main.go", line |-> 10]>>

\* terr.Newf(format) with no operands, in the revision at hand
NewfPlain(h, site) ==
    IF rev = "terr.go" THEN Newf(h, Lit(site), <<>>, site)
    ELSE NewfAny(h, Lit(site), <<>>, site)

InitChain ==
    /\ rev \in Revs
    /\ cost = 0
    /\ Sequential
    /\ LET r1 == NewfPlain(BaseHeap, ChainSites[1])
           r2 == NewfPlain(r1.heap, ChainSites[2])
       IN  /\ heap = r2.heap
           /\ calls = <<Call("Newf", NIL, <<>>, <<>>, NoLoc, ChainSites[1], r1.ret),
                        Call("Newf", NIL, <<>>, <<>>, NoLoc, ChainSites[2], r2.ret)>>

\* the same caller, continuing after the two errors of InitChain
SpecChain == InitChain /\ [][Next]_vars

\* a caller that builds its errors with Newf and Trace alone and prints them
NextPrinted ==
    \/ DoNewf
    \/ DoTrace

SpecPrinted == Init /\ [][NextPrinted]_vars

\* the largest number of frames a caller asks TraceSkip to skip
MaxSkip == 2

\* the line of a custom error constructor that calls TraceSkip
HelperFrame == [file |-> "errors.go", line |-> 56]

\* the frames above the caller's function
OuterFrames == <<[file |-> "proc.go", line |-> 250]>>

\* the stack above TraceSkip: called at the call site itself, or by a
\* constructor that was called at the call site
Stacks(site) == {<<site>> \o OuterFrames, <<HelperFrame, site>> \o OuterFrames}

CallSkip(err, skip, above, site) ==
    [op |-> "TraceSkip", err |-> err, args |-> <<>>, opts |-> <<>>, loc |-> NoLoc,
     site |-> site, ret |-> NIL, skip |-> skip, above |-> above]

InitSkip ==
    /\ heap = BaseHeap
    /\ calls = <<>>
    /\ cost = 0
    /\ rev = "example_test.go"
    /\ Sequential

\* err := terr.TraceSkip(e, skip), directly or inside a constructor
DoTraceSkip ==
    /\ rev = "example_test.go"
    /\ cost + 2 <= MaxCost
    /\ \E e \in Held \cup {NIL} : \E skip \in 0..MaxSkip : \E above \in Stacks(Site) :
          Record(CallSkip(e, skip, above, Site), TraceSkip(heap, e, skip, above), 2)

NextSkip ==
    \/ DoNewf
    \/ DoTrace
    \/ DoTraceSkip

SpecSkip == InitSkip /\ [][NextSkip]_vars

-----------------------------------------------------------------------------
(* Vocabulary of the properties.                                           *)

TraceOps == {"Trace", "TraceWithLocation", "TraceOpts"}

SkipCalls == {i \in DOMAIN calls : calls[i].op = "TraceSkip"}

\* the traced errors: the values returned by the functions of the package
Traced == Rets(SelectSeq(calls, LAMBDA c : c.op # "Errorf"))

\* the calls made so far that traced a non-nil error
TraceCalls == {i \in DOMAIN calls : calls[i].op \in TraceOps /\ calls[i].err # NIL}

NewfCalls == {i \in DOMAIN calls : calls[i].op = "Newf"}

\* the nodes of the package in the heap
Nodes == {n \in Ids(heap) : heap[n].kind = "tracedError"}

-----------------------------------------------------------------------------
\* C1: for a non-nil e, Children(Trace(e)) and Children(TraceWithLocation(e,
\* file, line)) are exactly [e] when e is a traced error and empty when e is
\* not a traced error.
C1_TraceChildren ==
    \A i \in TraceCalls :
        calls[i].op \in {"Trace", "TraceWithLocation"} =>
            Children(heap, calls[i].ret) =
                IF calls[i].err \in Traced THEN <<calls[i].err>> ELSE <<>>

\* C2: Children(Newf(format, a...)) is the subsequence of a made of the traced
\* errors, in argument order, whatever the verb; non-traced errors and
\* non-error values never appear.
C2_NewfChildren ==
    \A i \in NewfCalls :
        Children(heap, calls[i].ret) =
            SelectSeq(Operands(calls[i].args), LAMBDA a : a \in Traced)

\* C3: every child of every node is a non-nil traced error returned by the
\* package; a value of a foreign type that implements Error, Location and
\* Children is never taken as a child.
C3_ChildrenAreTraced ==
    \A n \in Nodes : \A j \in DOMAIN Children(heap, n) :
        Children(heap, n)[j] # NIL /\ Children(heap, n)[j] \in Traced

\* C4: Trace(nil), Trace(nil, opts...) and TraceWithLocation(nil, file, line)
\* return nil and allocate nothing.
C4_NilPropagates ==
    [][\A c \in {calls'[i] : i \in DOMAIN calls' \ DOMAIN calls} :
          (c.op \in TraceOps /\ c.err = NIL) => (c.ret = NIL /\ heap' = heap)]_vars

C4_Witness ==
    \E i \in DOMAIN calls :
        /\ calls[i].op \in {"TraceOpts", "TraceWithLocation"}
        /\ calls[i].err = NIL /\ calls[i].ret = NIL
        /\ Len(heap) = Len(BaseHeap)

\* C5: Trace(e).Error() = e.Error() for every non-nil e, also when e is
\* itself the result of nested tracing calls.
C5_MessageKept ==
    \A i \in TraceCalls : MsgOf(heap, calls[i].ret) = MsgOf(heap, calls[i].err)

C5_Witness ==
    \E i, j \in TraceCalls :
        /\ calls[i].err = calls[j].ret
        /\ MsgOf(heap, calls[i].ret) = MsgOf(heap, calls[j].err)
        /\ MsgOf(heap, calls[i].ret) # <<>>

\* C6 as stated: errors.Is(Trace(e), s) = errors.Is(e, s) for every non-nil e
\* and every target s.
C6_IsForEveryTarget ==
    \A i \in TraceCalls : \A s \in Ids(heap) \cup {NIL} :
        errorsIs(heap, calls[i].ret, s) = errorsIs(heap, calls[i].err, s)

\* C6 amended: errors.Is(Trace(e), s) = errors.Is(e, s) for every non-nil e
\* and every target s other than the node Trace(e) returned.
C6_IsDelegates ==
    \A i \in TraceCalls : \A s \in (Ids(heap) \cup {NIL}) \ {calls[i].ret} :
        errorsIs(heap, calls[i].ret, s) = errorsIs(heap, calls[i].err, s)

C6_Witness ==
    \E i \in TraceCalls : \E s \in Ids(heap) \ {calls[i].ret, calls[i].err} :
        errorsIs(heap, calls[i].ret, s)

\* whether operand j of Newf call c is a traced error embedded with %w
WrapsNode(c, j) == c.args[j].verb = "w" /\ c.args[j].a \in Traced

\* C7 as stated: when errors.As(e, &T) succeeds, errors.As succeeds with the
\* same extracted value on Trace(e), however often applied, and on every Newf
\* result that wraps such a node with %w.
C7_AsForEveryType ==
    \A T \in TargetTypes :
        /\ \A i \in TraceCalls :
              errorsAs(heap, calls[i].err, T).ok =>
                  errorsAs(heap, calls[i].ret, T) = errorsAs(heap, calls[i].err, T)
        /\ \A i \in NewfCalls : \A j \in DOMAIN calls[i].args :
              (WrapsNode(calls[i], j) /\ errorsAs(heap, calls[i].args[j].a, T).ok) =>
                  errorsAs(heap, calls[i].ret, T) = errorsAs(heap, calls[i].args[j].a, T)

\* a target type to which neither the node type nor the error types that
\* fmt.Errorf returns can be assigned
ForeignTarget(T) ==
    \A kind \in {"tracedError", "errorString", "wrapError", "wrapErrors"} :
        ~AssignableTo(kind, T)

\* what errors.As yields on the result r built over the source x, for type T
AsThrough(r, x, T) ==
    /\ errorsAs(heap, r, T).ok
    /\ ForeignTarget(T) => errorsAs(heap, r, T) = errorsAs(heap, x, T)
    /\ AssignableTo("tracedError", T) => errorsAs(heap, r, T).val = r

\* C7 amended: when errors.As(e, &T) succeeds, errors.As also succeeds on
\* Trace(e), however often applied, and on every Newf result that wraps such a
\* node with %w.  It yields the same value when T is a type to which neither
\* the node type nor the errors of fmt.Errorf are assignable (a concrete error
\* type of the caller) and, for Newf, no earlier %w operand of the call yields
\* a T; for an interface type a node implements it yields the outermost node.
C7_AsDelegates ==
    \A T \in TargetTypes :
        /\ \A i \in TraceCalls :
              errorsAs(heap, calls[i].err, T).ok =>
                  AsThrough(calls[i].ret, calls[i].err, T)
        /\ \A i \in NewfCalls : \A j \in DOMAIN calls[i].args :
              (WrapsNode(calls[i], j) /\ errorsAs(heap, calls[i].args[j].a, T).ok) =>
                  /\ errorsAs(heap, calls[i].ret, T).ok
                  /\ (\A k \in 1..(j - 1) :
                         calls[i].args[k].verb = "w" =>
                             ~errorsAs(heap, calls[i].args[k].a, T).ok) =>
                        AsThrough(calls[i].ret, calls[i].args[j].a, T)

C7_Witness ==
    \E i \in NewfCalls : \E j \in DOMAIN calls[i].args : \E k \in TraceCalls :
        /\ WrapsNode(calls[i], j)
        /\ calls[i].args[j].a = calls[k].ret
        /\ errorsAs(heap, calls[k].err, "customError").ok
        /\ errorsAs(heap, calls[i].ret, "customError") =
               errorsAs(heap, calls[k].err, "customError")

\* the operands of Newf call c that fmt.Errorf wraps
Wrapped(c) == wrappedErrs(heap, c.args)

\* what C8 says of errors.Unwrap besides the child nodes
C8_Delegation ==
    /\ \A n \in Nodes :
          /\ errorsUnwrap(heap, n) = errorsUnwrap(heap, heap[n].err)
          /\ errorsUnwrap(heap, n) # heap[n].err
    /\ \A i \in TraceCalls :
          errorsUnwrap(heap, calls[i].ret) = errorsUnwrap(heap, calls[i].err)
    /\ \A i \in NewfCalls :
          Len(Wrapped(calls[i])) = 1 =>
              errorsUnwrap(heap, calls[i].ret) = Wrapped(calls[i])[1].a

IsChild(n, x) == \E j \in DOMAIN Children(heap, n) : Children(heap, n)[j] = x

\* C9 as stated: a traced error t embedded by Newf with %v is a child of the
\* result and errors.Is(result, t) is false; embedded with %w it is a child and
\* errors.Is(result, t) is true.
C9_VerbDecidesIs ==
    \A i \in NewfCalls : \A j \in DOMAIN calls[i].args :
        LET t == calls[i].args[j].a
        IN  t \in Traced =>
               /\ IsChild(calls[i].ret, t)
               /\ errorsIs(heap, calls[i].ret, t) = (calls[i].args[j].verb = "w")

\* whether some operand of Newf call c embedded with %w has t in its chain
WrappedElsewhere(c, t) ==
    \E k \in DOMAIN c.args :
        /\ c.args[k].verb = "w"
        /\ IsError(heap, c.args[k].a)
        /\ errorsIs(heap, c.args[k].a, t)

\* C9 amended: a traced error t embedded by Newf with %v is a child of the
\* result, and errors.Is(result, t) is false unless the same call embeds with
\* %w an operand whose native chain contains t; embedded with %w, t is a child
\* and errors.Is(result, t) is true.
C9_VerbAndChain ==
    \A i \in NewfCalls : \A j \in DOMAIN calls[i].args :
        LET t == calls[i].args[j].a
        IN  t \in Traced =>
               /\ IsChild(calls[i].ret, t)
               /\ errorsIs(heap, calls[i].ret, t) = WrappedElsewhere(calls[i], t)
               /\ calls[i].args[j].verb = "w" => errorsIs(heap, calls[i].ret, t)

C9_Witness ==
    \E i \in NewfCalls : \E j, k \in DOMAIN calls[i].args :
        /\ calls[i].args[j].a \in Traced /\ calls[i].args[j].verb = "v"
        /\ IsError(heap, calls[i].args[k].a) /\ calls[i].args[k].verb = "w"
        /\ IsChild(calls[i].ret, calls[i].args[j].a)
        /\ ~errorsIs(heap, calls[i].ret, calls[i].args[j].a)
        /\ errorsIs(heap, calls[i].ret, calls[i].args[k].a)

\* The trace tree as paths: a path is the sequence of child positions leading
\* from the root to a node.
RECURSIVE NodeAt(_, _)
NodeAt(n, path) ==
    IF Len(path) = 0 THEN n ELSE NodeAt(heap[n].children[path[1]], Tail(path))

RECURSIVE PreOrder(_, _)
\* the paths below and including path, a node before its children, the
\* children in their order
PreOrder(root, path) ==
    LET n == NodeAt(root, path)
    IN  <<path>> \o Concat([j \in 1..Len(heap[n].children) |->
                               PreOrder(root, path \o <<j>>)])

\* the line of the node at depth d: d tabs, message, " @ ", file, ":", line
LineOf(n, d) ==
    [i \in 1..d |-> "\t"] \o MsgOf(heap, n)
        \o <<" @ ", heap[n].file, ":">> \o Itoa(heap[n].line)

RECURSIVE Unlines(_)
\* lines separated by one newline, none at the end
Unlines(ls) ==
    IF Len(ls) = 1 THEN ls[1]
    ELSE Unlines(SubSeq(ls, 1, Len(ls) - 1)) \o <<"\n">> \o ls[Len(ls)]

Rendering(n) ==
    LET paths == PreOrder(n, <<>>)
    IN  Unlines([k \in 1..Len(paths) |-> LineOf(NodeAt(n, paths[k]), Len(paths[k]))])

\* C10: %@ of a node is the pre-order depth-first traversal of its trace
\* tree, one line per node: depth tabs, Error(), " @ ", file, ":", line; the
\* lines joined by single newlines, no newline at the end.
C10_TreeRendering ==
    \A n \in Nodes : Format(heap, n, NoFlags, "@") = Rendering(n)

C10_Witness ==
    \E n \in Nodes :
        /\ Len(treeRepr(heap, n, 0)) >= 3
        /\ Format(heap, n, NoFlags, "@") = Rendering(n)

-----------------------------------------------------------------------------
\* TraceTree of the revision at hand
TraceTreeOf(h, err) ==
    IF rev = "terr.go" THEN TraceTree(h, err) ELSE TraceTreePtr(h, err)

\* C11: TraceTree(err) is err itself (so the same Error(), Location() and
\* Children()) if and only if err is a traced error returned by the package;
\* for nil and for every other error, also one whose type merely implements
\* the tree-node methods, it is nil.
C11_TraceTree ==
    \A x \in Ids(heap) \cup {NIL} :
        TraceTreeOf(heap, x) = IF x \in Traced THEN x ELSE NIL

-----------------------------------------------------------------------------
\* p is a result of the caller's own fmt.Errorf that embeds the traced error
\* t with %w
PlainWraps(p, t) ==
    /\ t \in Traced
    /\ \E i \in DOMAIN calls :
          /\ calls[i].op = "Errorf" /\ calls[i].ret = p
          /\ \E j \in DOMAIN calls[i].args :
                calls[i].args[j].verb = "w" /\ calls[i].args[j].a = t

\* call c is Trace(p), possibly with a location, or Newf("...%w", p)
BuiltFrom(c, p) ==
    \/ /\ c.op \in TraceOps /\ c.err = p
       /\ \A k \in DOMAIN c.opts : c.opts[k].opt = "WithLocation"
    \/ c.op = "Newf" /\ c.args = <<[a |-> p, verb |-> "w"]>>

RECURSIVE Tree(_)
\* the values of the trace tree rooted at n
Tree(n) ==
    {n} \cup UNION {Tree(Children(heap, n)[j]) : j \in DOMAIN Children(heap, n)}

\* C12: when a traced error t was wrapped by plain fmt.Errorf("...%w", t)
\* into the non-traced p, every node built from p by Trace(p) or
\* Newf("...%w", p) has no child for p, t occurs nowhere in its trace tree,
\* and errors.Is(node, t) is true.
C12_TraceReset ==
    \A p, t \in Ids(heap) :
        PlainWraps(p, t) =>
            /\ p \notin Traced
            /\ \A i \in DOMAIN calls :
                  BuiltFrom(calls[i], p) =>
                      /\ ~IsChild(calls[i].ret, p)
                      /\ t \notin Tree(calls[i].ret)
                      /\ errorsIs(heap, calls[i].ret, t)

C12_Witness ==
    \E p, t \in Ids(heap) : \E i \in DOMAIN calls :
        /\ PlainWraps(p, t) /\ BuiltFrom(calls[i], p)
        /\ Tree(calls[i].ret) = {calls[i].ret}
        /\ errorsIs(heap, calls[i].ret, t)

-----------------------------------------------------------------------------
\* one step of the native chain: the errors that errors.Is and errors.As
\* visit next after y (a node delegates to its underlying error)
NativeNext(y) ==
    CASE heap[y].kind = "tracedError" -> {heap[y].err}
      [] heap[y].kind \in {"wrapError", "wrapErrors"} ->
           {heap[y].wrapped[j] : j \in DOMAIN heap[y].wrapped}
      [] OTHER -> {}

RECURSIVE NativeReach(_, _)
\* the errors reachable from y along the native chain without passing
\* through an error of the set B
NativeReach(y, B) ==
    {y} \cup UNION {NativeReach(z, B) : z \in NativeNext(y) \ B}

\* the non-traced errors that were passed to Newf or Trace
Handed ==
    UNION {{calls[i].err} \cup {calls[i].args[j].a : j \in DOMAIN calls[i].args} :
              i \in {k \in DOMAIN calls : calls[k].op # "Errorf"}}
        \ (Traced \cup {NIL, PLAIN})

\* C13 as stated: for every node x, every traced error reachable from x by the
\* native unwrap chain is also reachable from x by Children().
C13_TreeIncludesChain ==
    \A x \in Traced : (NativeReach(x, {}) \cap Traced) \subseteq Tree(x)

\* C13 amended: for every node x, every traced error reachable from x by the
\* native chain without passing through a non-traced error that was passed to
\* Newf or Trace is also reachable from x by Children().
C13_TreeIncludesTracedChain ==
    \A x \in Traced : (NativeReach(x, Handed) \cap Traced) \subseteq Tree(x)

C13_Witness ==
    \E x, t \in Traced :
        /\ t \in NativeReach(x, Handed) /\ t # x
        /\ ~IsChild(x, t) /\ t \in Tree(x)
        /\ errorsUnwrap(heap, x) = t

-----------------------------------------------------------------------------
\* the calls that returned a node whose location was captured from the stack:
\* Newf, and Trace without a location override
Captured ==
    {i \in DOMAIN calls :
        /\ calls[i].op \in {"Newf", "Trace", "TraceOpts"} /\ calls[i].ret # NIL
        /\ \A k \in DOMAIN calls[i].opts : calls[i].opts[k].opt # "WithLocation"}

\* C14: the location of a node returned by Newf or by Trace without a location
\* override is the file and line of the call site, never a frame inside the
\* package; constructions on consecutive source lines record consecutive line
\* numbers.
C14_CallSite ==
    /\ \A i \in Captured :
          /\ Location(heap, calls[i].ret) = location(calls[i].site.file, calls[i].site.line)
          /\ Location(heap, calls[i].ret).file # "terr.go"
    /\ \A i, j \in Captured :
          calls[j].site.line = calls[i].site.line + 1 =>
              Location(heap, calls[j].ret).line = Location(heap, calls[i].ret).line + 1

C14_Witness ==
    \E i, j \in Captured :
        /\ calls[i].op = "Newf" /\ calls[j].op \in {"Trace", "TraceOpts"}
        /\ calls[j].site.line = calls[i].site.line + 1
        /\ Location(heap, calls[i].ret) = location("main.go", calls[i].site.line)
        /\ Location(heap, calls[j].ret) = location("main.go", calls[i].site.line + 1)

-----------------------------------------------------------------------------
\* what plain Trace(c.err) returns when called where call c was made, at the
\* call site `site`
TraceThere(c, site) ==
    LET r == IF rev = "terr.go" THEN Trace(heap, c.err, site)
             ELSE TraceOpts(heap, c.err, <<>>, site)
    IN  r.heap[r.ret]

\* C15: TraceSkip(err, skip) behaves like Trace(err) except that the location
\* is the frame skip levels above TraceSkip's direct caller: with skip = 1 in
\* a constructor h called from g it is g's call site of h, not a line of h;
\* with skip = 0 it is the location Trace would record.
C15_TraceSkip ==
    \A i \in SkipCalls :
        LET c == calls[i]
        IN  /\ c.err = NIL <=> c.ret = NIL
            /\ c.ret # NIL =>
                  LET n == heap[c.ret]
                      t == TraceThere(c, c.above[1])
                  IN  /\ n.err = t.err /\ n.children = t.children
                      /\ MsgOf(heap, c.ret) = MsgOf(heap, c.err)
                      /\ c.skip < Len(c.above) =>
                            Location(heap, c.ret) =
                                location(c.above[c.skip + 1].file, c.above[c.skip + 1].line)
                      /\ (c.skip = 1 /\ c.above[1] = HelperFrame) =>
                            /\ Location(heap, c.ret) = location(c.site.file, c.site.line)
                            /\ Location(heap, c.ret) # location(HelperFrame.file, HelperFrame.line)
                      /\ c.skip = 0 => n = t

C15_Witness ==
    \E i, j \in SkipCalls :
        /\ calls[i].skip = 1 /\ calls[i].above[1] = HelperFrame
        /\ calls[i].ret # NIL
        /\ Location(heap, calls[i].ret) = location("main.go", calls[i].site.line)
        /\ calls[j].skip = 0 /\ calls[j].err = calls[i].ret
        /\ Children(heap, calls[j].ret) = <<calls[i].ret>>
        /\ Location(heap, calls[j].ret).file \in {"main.go", "errors.go"}

-----------------------------------------------------------------------------
\* the calls that returned a node with an explicit location, and the location
\* they were given: TraceWithLocation(err, file, line) and
\* Trace(err, WithLocation(file, line))
Located ==
    {i \in DOMAIN calls :
        /\ calls[i].ret # NIL
        /\ \/ calls[i].op = "TraceWithLocation"
           \/ /\ calls[i].op = "TraceOpts" /\ Len(calls[i].opts) = 1
              /\ calls[i].opts[1].opt = "WithLocation"}

GivenLocation(c) ==
    IF c.op = "TraceWithLocation" THEN c.loc
    ELSE location(c.opts[1].file, c.opts[1].line)

\* C16: with an explicit location Location() of the node is exactly the (file,
\* line) given, whatever they are; the call-stack location is not used; the
\* children and the message are those of plain Trace(err).
C16_ExplicitLocation ==
    \A i \in Located :
        LET c == calls[i]
            t == TraceThere(c, c.site)
        IN  /\ Location(heap, c.ret) = GivenLocation(c)
            /\ Location(heap, c.ret) # location(c.site.file, c.site.line)
            /\ Children(heap, c.ret) = t.children
            /\ heap[c.ret].err = t.err
            /\ MsgOf(heap, c.ret) = MsgOf(heap, c.err)

C16_Witness ==
    \E i \in Located :
        /\ calls[i].err \in Traced
        /\ Location(heap, calls[i].ret) = location("custom.go", 123)
        /\ Children(heap, calls[i].ret) = <<calls[i].err>>
        /\ Location(heap, calls[i].err).file = "main.go"

-----------------------------------------------------------------------------
\* the traced errors of a list, in their order
TracedOf(cs) == SelectSeq(cs, LAMBDA x : x \in Traced)

\* the calls Trace(err, opts...) that returned a node
OptionCalls == {i \in DOMAIN calls : calls[i].op = "TraceOpts" /\ calls[i].ret # NIL}

\* C17: the children of Trace(err, WithChildren(cs)) are the automatic child
\* (err itself, if err is traced) followed by the traced errors of cs in their
\* order in cs; non-traced and nil elements of cs are ignored; explicit
\* children are appended, they never replace the automatic child.  (With
\* several options, the lists are appended in the order of the options.)
C17_WithChildren ==
    \A i \in OptionCalls :
        LET c == calls[i]
        IN  Children(heap, c.ret) =
                TracedOf(<<c.err>>)
                    \o Concat([k \in DOMAIN c.opts |-> TracedOf(c.opts[k].children)])

C17_Witness ==
    \E i \in OptionCalls :
        LET c == calls[i]
        IN  /\ Len(c.opts) = 1 /\ Len(c.opts[1].children) = 2
            /\ c.err \in Traced
            /\ c.opts[1].children[1] \notin Traced
            /\ c.opts[1].children[2] \in Traced \ {c.err}
            /\ Children(heap, c.ret) = <<c.err, c.opts[1].children[2]>>

-----------------------------------------------------------------------------
(* Erasure: the caller's program with terr.Newf replaced by fmt.Errorf and  *)
(* terr.Trace(a), terr.TraceWithLocation(a, file, line) replaced by a.      *)

\* the value that stands for operand a in the erased program
ErasedArg(map, a) == IF a \in DOMAIN map THEN map[a] ELSE a

ErasedArgs(map, args) ==
    [j \in DOMAIN args |-> [a |-> ErasedArg(map, args[j].a), verb |-> args[j].verb]]

RECURSIVE Erasure(_)
\* the erased program after the first n calls: its heap, and for every value
\* of the traced program the value of the erased program that stands for it
Erasure(n) ==
    IF n = 0 THEN [heap |-> BaseHeap, map |-> [i \in 1..Len(BaseHeap) |-> i]]
    ELSE LET prev == Erasure(n - 1)
             c == calls[n]
         IN  CASE c.op \in {"Newf", "Errorf"} ->
                    LET r == Alloc(prev.heap,
                                   fmtErrorf(prev.heap, Lit(c.site),
                                             ErasedArgs(prev.map, c.args)))
                    IN  [heap |-> r.heap,
                         map |-> prev.map \o (IF c.op = "Newf" THEN <<r.ret, r.ret>>
                                              ELSE <<r.ret>>)]
               [] c.ret = NIL -> prev
               [] OTHER -> [heap |-> prev.heap,
                            map |-> Append(prev.map, prev.map[c.err])]

\* the erased program as it stands now
Erased == Erasure(Len(calls))

RECURSIVE UnwrapMsgs(_, _)
\* the messages met under repeated errors.Unwrap, starting with x's own
UnwrapMsgs(h, x) ==
    IF x = NIL THEN <<>> ELSE <<MsgOf(h, x)>> \o UnwrapMsgs(h, errorsUnwrap(h, x))

\* the program made only calls that the erasure covers
OnlyTracing(ops) == \A i \in DOMAIN calls : calls[i].op \in ops

\* errors.Is answers the same on x with target s and on their erasures in er
SameIs(er, x, s) ==
    errorsIs(heap, x, s) = errorsIs(er.heap, ErasedArg(er.map, x), ErasedArg(er.map, s))

\* errors.As answers the same, the extracted values being equal up to erasure
SameAs(er, x, T) ==
    LET r == errorsAs(heap, x, T)
        q == errorsAs(er.heap, ErasedArg(er.map, x), T)
    IN  r.ok = q.ok /\ ErasedArg(er.map, r.val) = q.val

\* Error() and the messages under repeated errors.Unwrap are the same
SameMessages(er, x) ==
    /\ MsgOf(heap, x) = MsgOf(er.heap, ErasedArg(er.map, x))
    /\ UnwrapMsgs(heap, x) = UnwrapMsgs(er.heap, ErasedArg(er.map, x))

TraceRets == {calls[i].ret : i \in TraceCalls}

\* the types only a node has: the interfaces a node implements and its
\* underlying error need not
NodeOnlyTypes == {"TracedError", "Formatter"}

-----------------------------------------------------------------------------
\* the directives a caller formats a node with: flags, width and precision
FmtStates ==
    {NoFlags, fmtState({"+"}, NoNum, NoNum), fmtState({"#"}, 8, NoNum),
     fmtState({"-"}, 8, 3), fmtState({"+", "0"}, 8, 3)}

\* the verbs other than '@'
FmtVerbs == {"v", "s", "q", "d", "w", "T", "p"}

\* formatting the node n gives what formatting its underlying error gives,
\* under the state f and the verb, inside fmt.Errorf (wrapErrs) or outside
SameFormat(n, f, verb, wrapErrs) ==
    printArg(heap, n, f, verb, wrapErrs) = printArg(heap, heap[n].err, f, verb, wrapErrs)

\* '@' renders the tree, whatever the flags
TreeOnAt ==
    \A n \in Nodes :
        LET tree == Rendering(n)
        IN  \A f \in FmtStates : \A w \in BOOLEAN : printArg(heap, n, f, "@", w) = tree

\* C19 as stated: for every verb other than '@', with any flags, width and
\* precision, formatting a node gives exactly the output of formatting its
\* underlying error with the same verb and flags; only '@' renders the tree.
C19_EveryVerbForwarded ==
    /\ TreeOnAt
    /\ \A n \in Nodes : \A f \in FmtStates : \A verb \in FmtVerbs : \A w \in BOOLEAN :
          SameFormat(n, f, verb, w)

\* C19 amended: for every verb that fmt hands to the node's Format method,
\* that is every verb other than '@', 'T' and 'p', and other than 'w' outside
\* fmt.Errorf, with any flags, width and precision, formatting a node gives
\* exactly the output of formatting its underlying error with the same verb
\* and flags; only '@' renders the tree.
C19_VerbsForwarded ==
    /\ TreeOnAt
    /\ \A n \in Nodes : \A f \in FmtStates : \A verb \in FmtVerbs \ {"T", "p"} :
          \A w \in BOOLEAN :
              (verb = "w" => w) => SameFormat(n, f, verb, w)

C19_Witness ==
    \E n \in Nodes : \E f \in FmtStates :
        /\ heap[n].err \in Nodes
        /\ f.flags = {"+", "0"} /\ f.wid = 8 /\ f.prec = 3
        /\ printArg(heap, n, f, "q", FALSE) = fmtString(f, "q", MsgOf(heap, n))
        /\ printArg(heap, n, f, "q", FALSE) # printArg(heap, n, NoFlags, "q", FALSE)
        /\ printArg(heap, heap[n].err, f, "T", FALSE)
               # printArg(heap, heap[heap[n].err].err, f, "T", FALSE)

-----------------------------------------------------------------------------
\* C20: once a construction operation has returned a node, no later operation
\* changes its underlying error, location or children: a node used as
\* argument or child of a new node stays as it was, and options modify only
\* the node that the same Trace call constructs.
C20_NodesImmutable ==
    [][\A n \in Nodes :
          /\ n \in Ids(heap')
          /\ heap'[n].err = heap[n].err
          /\ Location(heap', n) = Location(heap, n)
          /\ Children(heap', n) = Children(heap, n)
          /\ heap'[n] = heap[n]]_vars

C20_Witness ==
    \E i \in OptionCalls : \E k, m \in DOMAIN calls[i].opts :
        LET c == calls[i]
        IN  /\ c.err \in Traced
            /\ c.opts[k].opt = "WithLocation"
            /\ c.opts[m].opt = "WithChildren"
            /\ \E j \in DOMAIN c.opts[m].children :
                  /\ c.opts[m].children[j] \in Traced \ {c.err}
                  /\ Children(heap, c.opts[m].children[j]) = <<>>
                  /\ Location(heap, c.opts[m].children[j]).file = "main.go"
            /\ Location(heap, c.ret) = location(c.opts[k].file, c.opts[k].line)
            /\ Location(heap, c.err) # Location(heap, c.ret)
            /\ Location(heap, c.err).file = "main.go"
            /\ Children(heap, c.err) = <<>>
            /\ Len(Children(heap, c.ret)) = 2

-----------------------------------------------------------------------------
(* The concurrent caller: goroutines that share every value a call has     *)
(* returned and run the functions of the package statement by statement.   *)
(* A step is one statement that reads or writes the heap; the program has  *)
(* already made the two traced errors of InitChain.                        *)

Become(p, pr) == procs' = [procs EXCEPT ![p] = pr]

\* Trace of an error that is already a node giving it the new location in
\* place instead of allocating a node
allocNode_InPlace(h, err, loc, terrs) ==
    IF isPtrTracedError(h, err)
    THEN [heap |-> [h EXCEPT ![err].file = loc.file, ![err].line = loc.line],
          ret |-> err]
    ELSE Alloc(h, IF rev = "terr.go" THEN tracedError(err, loc, terrs, Len(terrs) = 0)
                  ELSE tracedError(err, loc, <<>>, TRUE))

\* &tracedError{err, loc, terrs}: the allocation of the node, in part_004
\* with no children yet
allocNode(h, err, loc, terrs) ==
    Alloc(h, IF rev = "terr.go" THEN tracedError(err, loc, terrs, Len(terrs) = 0)
             ELSE tracedError(err, loc, <<>>, TRUE))

\* where a construction starts: src/terr.go collects the children in a local
\* slice before it allocates, part_004 allocates first
FirstPc(todo) == IF rev = "terr.go" /\ Len(todo) > 0 THEN "children" ELSE "alloc"

\* go func() { err := terr.Newf(format, a...) }: the call begins
GoNewf ==
    \E p \in Procs :
        /\ procs[p].pc = "idle"
        /\ \E n \in {k \in 0..1 : cost + 2 + k <= MaxCost} : \E args \in Args(n) :
              /\ Become(p, Proc("errorf", Call("Newf", NIL, args, <<>>, NoLoc, Site, NIL),
                                NIL,
                                getCallerLocation(
                                    StackIn(IF rev = "terr.go" THEN 131 ELSE 105, Site)),
                                <<>>))
              /\ cost' = cost + 2 + n
        /\ UNCHANGED <<heap, calls, rev>>

\* fmt.Errorf(format, a...) inside Newf, and filterErrors(a) in src/terr.go
StepErrorf ==
    \E p \in Procs :
        /\ procs[p].pc = "errorf"
        /\ LET pr == procs[p]
               r == Alloc(heap, fmtErrorf(heap, Lit(pr.call.site), pr.call.args))
               todo == IF rev = "terr.go"
                       THEN filterErrors(r.heap, Operands(pr.call.args))
                       ELSE Operands(pr.call.args)
           IN  /\ heap' = r.heap
               /\ Become(p, [pr EXCEPT !.und = r.ret, !.todo = todo,
                                       !.pc = FirstPc(todo)])
        /\ UNCHANGED <<calls, cost, rev>>

\* the nil check of Trace and TraceWithLocation: nil is returned at once,
\* otherwise newTracedError starts with the one candidate child err
StartTrace(p, c, at, k) ==
    /\ procs[p].pc = "idle"
    /\ cost + k <= MaxCost
    /\ cost' = cost + k
    /\ IF c.err = NIL
       THEN calls' = Append(calls, c) /\ UNCHANGED procs
       ELSE Become(p, Proc(FirstPc(<<c.err>>), c, c.err, at, <<c.err>>))
                /\ UNCHANGED calls
    /\ UNCHANGED <<heap, rev>>

\* go func() { err := terr.Trace(e) }
GoTrace ==
    \E p \in Procs : \E e \in Held \cup {NIL} :
        StartTrace(p, Call("Trace", e, <<>>, <<>>, NoLoc, Site, NIL),
                   getCallerLocation(StackIn(142, Site)), 2)

\* go func() { err := terr.TraceWithLocation(e, file, line) }
GoTraceWithLocation ==
    /\ rev = "terr.go"
    /\ \E p \in Procs : \E e \in Held \cup {NIL} : \E loc \in ExplicitLocations :
          StartTrace(p, Call("TraceWithLocation", e, <<>>, <<>>, loc, Site, NIL), loc, 2)

\* go func() { err := terr.Trace(e, opts...) } with one or two options
GoTraceOpts ==
    /\ rev = "part_004"
    /\ \E p \in Procs : \E e \in Held \cup {NIL} :
       \E o1 \in Options(MaxCost - cost - 2) :
          \/ StartTrace(p, Call("TraceOpts", e, <<>>, <<o1>>, NoLoc, Site, NIL),
                        getCallerLocation(StackIn(142, Site)), 1 + OptionCost(o1))
          \/ \E o2 \in Options(MaxCost - cost - 2 - OptionCost(o1)) :
                StartTrace(p, Call("TraceOpts", e, <<>>, <<o1, o2>>, NoLoc, Site, NIL),
                           getCallerLocation(StackIn(142, Site)),
                           1 + OptionCost(o1) + OptionCost(o2))

\* the statement after the allocation: the loop over the children, the loop
\* over the options, or the return
AfterAlloc(pr) ==
    IF rev = "terr.go" THEN "return"
    ELSE IF Len(pr.todo) > 0 THEN "children"
    ELSE IF Len(pr.todoOpts) > 0 THEN "opts" ELSE "return"

\* the allocation of the new node, which only this goroutine holds
StepAlloc ==
    \E p \in Procs :
        /\ procs[p].pc = "alloc"
        /\ LET pr == procs[p]
               r == allocNode(heap, pr.und, pr.at, pr.terrs)
           IN  /\ heap' = r.heap
               /\ Become(p, [pr EXCEPT !.node = r.ret, !.pc = AfterAlloc(pr)])
        /\ UNCHANGED <<calls, cost, rev>>

\* one round of the loop over the candidate children: src/terr.go appends to
\* the local slice terrs, part_004 appends to the children of the new node
StepChild ==
    \E p \in Procs :
        /\ procs[p].pc = "children"
        /\ LET pr == procs[p]
               child == Head(pr.todo)
               rest == [pr EXCEPT !.todo = Tail(pr.todo)]
           IN  IF rev = "terr.go"
               THEN /\ Become(p, [rest EXCEPT
                                    !.terrs = IF implementsTracedError(heap, child)
                                              THEN Append(pr.terrs, child) ELSE pr.terrs,
                                    !.pc = FirstPc(rest.todo)])
                    /\ UNCHANGED heap
               ELSE /\ heap' = IF isPtrTracedError(heap, child)
                               THEN [heap EXCEPT ![pr.node].children = Append(@, child),
                                                 ![pr.node].childrenNil = FALSE]
                               ELSE heap
                    /\ Become(p, [rest EXCEPT !.pc = AfterAlloc(rest)])
        /\ UNCHANGED <<calls, cost, rev>>

\* one round of the loop over the options: opt(terr)
StepOpt ==
    \E p \in Procs :
        /\ procs[p].pc = "opts"
        /\ LET pr == procs[p]
               rest == [pr EXCEPT !.todoOpts = Tail(pr.todoOpts)]
           IN  /\ heap' = [heap EXCEPT
                              ![pr.node] = ApplyOption(heap, Head(pr.todoOpts), heap[pr.node])]
               /\ Become(p, [rest EXCEPT !.pc = AfterAlloc(rest)])
        /\ UNCHANGED <<calls, cost, rev>>

\* return terr: the caller stores the node where the other goroutines see it
StepReturn ==
    \E p \in Procs :
        /\ procs[p].pc = "return"
        /\ calls' = Append(calls, [procs[p].call EXCEPT !.ret = procs[p].node])
        /\ Become(p, IdleProc)
        /\ UNCHANGED <<heap, cost, rev>>

\* the reads of a node
ReadOps == {"Error", "Location", "Children", "Unwrap", "Is", "As", "Format"}

\* the second operand of a read: the target of errors.Is, the target type of
\* errors.As
ReadTargets(rop) ==
    CASE rop = "Is" -> Ids(BaseHeap)
      [] rop = "As" -> {"customError", "TracedError"}
      [] OTHER -> {NIL}

\* the value of a read made in one piece on heap h
ReadValue(h, rop, x, target) ==
    CASE rop = "Error" -> MsgOf(h, x)
      [] rop = "Location" -> Location(h, x)
      [] rop = "Children" -> Children(h, x)
      [] rop = "Unwrap" -> errorsUnwrap(h, x)
      [] rop = "Is" -> errorsIs(h, x, target)
      [] rop = "As" -> errorsAs(h, x, target)
      [] rop = "Format" -> Format(h, x, NoFlags, "@")

\* go func() { ... x.Error() ... }: a goroutine begins to read a shared node
GoRead ==
    \E p \in Procs :
        /\ procs[p].pc = "idle"
        /\ cost + 2 <= MaxCost
        /\ \E x \in Rets(calls) \cap Nodes : \E rop \in ReadOps : \E t \in ReadTargets(rop) :
              Become(p, [Proc(IF rop = "Format" THEN "walk" ELSE "read",
                              Call(rop, x, <<>>, <<>>, NoLoc, Site, NIL), NIL, NoLoc, <<>>)
                           EXCEPT !.target = t,
                                  !.stack = <<[n |-> x, depth |-> 0]>>,
                                  !.expect = ReadValue(heap, rop, x, t)])
        /\ cost' = cost + 2
        /\ UNCHANGED <<heap, calls, rev>>

\* the line treeRepr makes for the node te at the given depth
treeLine(h, te, depth) ==
    LET loc == Location(h, te)
    IN  Repeat(<<"\t">>, depth) \o MsgOf(h, te) \o <<" @ ">>
            \o (<<loc.file>> \o <<":">> \o Itoa(loc.line))

\* one call of treeRepr: the line of the node on top of the stack, its
\* children to be visited next, before what is left of the stack
StepWalk ==
    \E p \in Procs :
        /\ procs[p].pc = "walk"
        /\ LET pr == procs[p]
               top == Head(pr.stack)
               ok == assertNode(heap, top.n)
               lines == IF ok THEN <<treeLine(heap, top.n, top.depth)>> ELSE Panic
               kids == IF ok THEN Children(heap, top.n) ELSE <<>>
               stack == [j \in 1..Len(kids) |-> [n |-> kids[j], depth |-> top.depth + 1]]
                            \o Tail(pr.stack)
               out == pr.out \o lines
           IN  IF Len(stack) = 0
               THEN Become(p, [pr EXCEPT !.pc = "got", !.got = Join(out, <<"\n">>),
                                         !.stack = <<>>, !.out = <<>>])
               ELSE Become(p, [pr EXCEPT !.stack = stack, !.out = out])
        /\ UNCHANGED <<heap, calls, cost, rev>>

\* the read itself, some time after the goroutine began
StepRead ==
    \E p \in Procs :
        /\ procs[p].pc = "read"
        /\ Become(p, [procs[p] EXCEPT
                         !.pc = "got",
                         !.got = ReadValue(heap, procs[p].call.op, procs[p].call.err,
                                           procs[p].target)])
        /\ UNCHANGED <<heap, calls, cost, rev>>

\* the goroutine has used the value it read
StepDone ==
    \E p \in Procs :
        /\ procs[p].pc = "got"
        /\ Become(p, IdleProc)
        /\ UNCHANGED <<heap, calls, cost, rev>>

NextConc ==
    \/ GoNewf
    \/ StepErrorf
    \/ GoTrace
    \/ GoTraceWithLocation
    \/ GoTraceOpts
    \/ StepAlloc
    \/ StepChild
    \/ StepOpt
    \/ StepReturn
    \/ GoRead
    \/ StepWalk
    \/ StepRead
    \/ StepDone

SpecConc == InitChain /\ [][NextConc]_vars

\* the values an object of the heap refers to
Refs(n) ==
    ({heap[n].err} \cup {heap[n].children[j] : j \in DOMAIN heap[n].children}
        \cup {heap[n].wrapped[j] : j \in DOMAIN heap[n].wrapped}) \ {NIL}

RECURSIVE ReachFrom(_, _)
\* the objects reachable from the objects of todo, besides those of seen
ReachFrom(todo, seen) ==
    IF todo = {} THEN seen
    ELSE LET n == CHOOSE n \in todo : TRUE
         IN  ReachFrom((todo \cup Refs(n)) \ (seen \cup {n}), seen \cup {n})

\* the objects that the goroutines other than p can reach: what the calls
\* returned, the caller's own errors, and what the others hold in their calls
ReachableByOthers(p) ==
    ReachFrom((Held \cup {procs[q].node : q \in Procs \ {p}}
                    \cup {procs[q].und : q \in Procs \ {p}}) \cap Ids(heap), {})

\* the goroutine that takes the step
Stepper(p) == procs'[p] # procs[p]

\* no step writes to an object that another goroutine can reach
WriteSafe ==
    \A n \in Ids(heap) :
        heap'[n] # heap[n] =>
            \E p \in Procs : Stepper(p) /\ n \notin ReachableByOthers(p)

\* a read that has finished gave the value it gave in one piece when it
\* began, which is also the value it gives in one piece now
ReadsAgree ==
    \A p \in Procs :
        procs[p].pc = "got" =>
            /\ procs[p].got = procs[p].expect
            /\ procs[p].got = ReadValue(heap, procs[p].call.op, procs[p].call.err,
                                        procs[p].target)

\* C21: under any interleaving of goroutines that read shared nodes (Error,
\* Location, Children, Is, As, Unwrap, %@) and construct new nodes over them,
\* no step writes to a node that another goroutine can already reach, and
\* every read returns the value it returns in a sequential execution.
C21_NoRace == [][WriteSafe /\ ReadsAgree']_vars

C21_Witness ==
    \E p, q \in Procs :
        /\ procs[p].pc = "got" /\ procs[p].call.op = "Format"
        /\ procs[p].got = procs[p].expect
        /\ procs[q].pc \in {"opts", "return"}
        /\ procs[q].und = procs[p].call.err
        /\ procs[q].node # NIL
        /\ Children(heap, procs[q].node) = <<procs[p].call.err>>
        /\ procs[q].call.site.line = procs[p].call.site.line

-----------------------------------------------------------------------------
\* the call that returned the traced error x
CallOf(x) == calls[CHOOSE i \in DOMAIN calls : calls[i].ret = x]

\* the traced errors among the children of node x
TracedChildren(x) == TracedOf(Children(heap, x))

\* call c is Trace(e), or a Newf whose only traced operand is e
Link(c, e) ==
    \/ c.op = "Trace" /\ c.err = e
    \/ c.op = "Newf" /\ TracedOf(Operands(c.args)) = <<e>>

RECURSIVE ChainOf(_)
\* the chain e1..en that ends in the traced error x, empty when x is not the
\* end of a chain: e1 has no traced children, every later element is a link
\* over the one before
ChainOf(x) ==
    IF x \notin Traced THEN <<>>
    ELSE IF Len(TracedChildren(x)) = 0 THEN <<x>>
    ELSE LET c == CallOf(x)
             es == {e \in Traced : Link(c, e)}
         IN  IF es = {} THEN <<>>
             ELSE LET below == ChainOf(CHOOSE e \in es : TRUE)
                  IN  IF Len(below) = 0 THEN <<>> ELSE Append(below, x)

\* line k of the rendering of a chain ch of n elements: k tabs, then the
\* message and the location of e(n-k)
ChainLine(ch, k) == LineOf(ch[Len(ch) - k], k)

\* the message of a chain element: that of the level below for Trace, the
\* newly formatted text for Newf
LevelMessage(x) ==
    LET c == CallOf(x)
    IN  IF c.op = "Newf" THEN Lit(c.site) \o fmtArgs(heap, c.args)
        ELSE MsgOf(heap, c.err)

\* C22: for a chain e1..en where e1 has no traced children and each e(i+1)
\* is Trace(ei) or a Newf whose only traced argument is ei, the %@ rendering
\* of en has exactly n lines, line k (k = 0..n-1) starts with exactly k tabs
\* and shows the message and location of e(n-k); Trace levels repeat the
\* message of the level below, Newf levels show the newly formatted message.
C22_ChainRendering ==
    \A x \in Traced :
        LET ch == ChainOf(x)
            n == Len(ch)
            lines == treeRepr(heap, x, 0)
        IN  n > 0 =>
               /\ Len(lines) = n
               /\ \A k \in 0..(n - 1) :
                     /\ lines[k + 1] = ChainLine(ch, k)
                     /\ SubSeq(lines[k + 1], 1, k) = [i \in 1..k |-> "\t"]
                     /\ lines[k + 1][k + 1] # "\t"
               /\ \A i \in 1..n : MsgOf(heap, ch[i]) = LevelMessage(ch[i])

-----------------------------------------------------------------------------
\* e.Children() == nil: the slice returned is the nil slice
ChildrenNil(h, e) == h[e].childrenNil

\* C23: Children() of a node that has no children returns an empty sequence
\* and never a null value, for nodes built by every construction operation
\* (Newf without traced arguments, Trace or TraceWithLocation of a non-traced
\* error).
C23_ChildrenNeverNil ==
    \A i \in DOMAIN calls :
        (calls[i].ret # NIL /\ calls[i].op # "Errorf") =>
            /\ ChildrenNil(heap, calls[i].ret) => Children(heap, calls[i].ret) = <<>>
            /\ Children(heap, calls[i].ret) = <<>> => ~ChildrenNil(heap, calls[i].ret)

-----------------------------------------------------------------------------
(* The caller that writes into the slice Children() returned.  The slice   *)
(* returned is the stored slice e.children itself, so it shares its        *)
(* backing array with the node.                                            *)

\* cs := e.Children(); cs[j] = v: the heap afterwards
AssignChild(h, e, j, v) == [h EXCEPT ![e].children[j] = v]

\* cs := e.Children(); cs[i], cs[j] = cs[j], cs[i]: the heap afterwards
SwapChildren(h, e, i, j) ==
    [h EXCEPT ![e].children[i] = h[e].children[j], ![e].children[j] = h[e].children[i]]

\* the values of the element type of the slice: the nodes and the caller's
\* own tree nodes
ElementValues == {v \in Held : implementsTracedError(heap, v)}

\* cs := n.Children(); cs[j] = v
DoAssign ==
    /\ cost + 1 <= MaxCost
    /\ \E n \in Held \cap Nodes : \E j \in DOMAIN Children(heap, n) :
       \E v \in ElementValues :
          Record(Call("Assign", n, <<>>, <<>>, NoLoc, Site, n),
                 [heap |-> AssignChild(heap, n, j, v), ret |-> n], 1)

\* cs := n.Children(); cs[i], cs[j] = cs[j], cs[i]
DoSwap ==
    /\ cost + 1 <= MaxCost
    /\ \E n \in Held \cap Nodes : \E i, j \in DOMAIN Children(heap, n) :
          /\ i < j
          /\ Record(Call("Swap", n, <<>>, <<>>, NoLoc, Site, n),
                    [heap |-> SwapChildren(heap, n, i, j), ret |-> n], 1)

NextView ==
    \/ DoNewf
    \/ DoTrace
    \/ DoAssign
    \/ DoSwap

SpecView == InitChain /\ [][NextView]_vars

\* the step is a write into a slice obtained from Children()
SliceWrite == calls'[Len(calls')].op \in {"Assign", "Swap"}

\* C24: the sequence returned by Children() is a read-only view: overwriting
\* or reordering its elements does not change what later Children() calls on
\* the same node return, nor what %@ renders for that node or for any node
\* that has it as a descendant.
C24_ChildrenReadOnly ==
    [][SliceWrite =>
          /\ \A n \in Nodes : Children(heap', n) = Children(heap, n)
          /\ \A n \in Nodes :
                Format(heap', n, NoFlags, "@") = Format(heap, n, NoFlags, "@")]_vars

-----------------------------------------------------------------------------
(* The caller that prints its errors with %@ between its other calls.      *)

CallFormat(n, site, out) ==
    [op |-> "Format", err |-> n, args |-> <<>>, opts |-> <<>>, loc |-> NoLoc,
     site |-> site, ret |-> NIL, out |-> out]

\* s := fmt.Sprintf("%@", n): Format writes to the fmt.State only
DoFormat ==
    /\ cost + 1 <= MaxCost
    /\ \E n \in Held \cap Nodes :
          Record(CallFormat(n, Site, Format(heap, n, NoFlags, "@")),
                 [heap |-> heap, ret |-> NIL], 1)

NextRender ==
    \/ DoNewf
    \/ DoTrace
    \/ DoTraceWithLocation
    \/ DoTraceOpts
    \/ DoFormat

SpecRender == InitChain /\ [][NextRender]_vars

FormatCalls == {i \in DOMAIN calls : calls[i].op = "Format"}

\* call c builds a new node over n: n is its argument, an operand or an
\* explicit child
BuildsOver(c, n) ==
    /\ c.op \in TraceOps \cup {"Newf"} /\ c.ret # NIL
    /\ \/ c.err = n
       \/ \E j \in DOMAIN c.args : c.args[j].a = n
       \/ \E k \in DOMAIN c.opts : \E j \in DOMAIN c.opts[k].children :
             c.opts[k].children[j] = n

\* C25: rendering the same node with %@ twice, with any other package
\* operations (including building new parents over it) in between, yields
\* identical output.
C25_RenderTwice ==
    /\ \A i, j \in FormatCalls :
          calls[i].err = calls[j].err => calls[i].out = calls[j].out
    /\ \A i \in FormatCalls :
          calls[i].out = Format(heap, calls[i].err, NoFlags, "@")

C25_Witness ==
    \E i, j \in FormatCalls : \E k \in DOMAIN calls :
        /\ i < k /\ k < j
        /\ calls[i].err = calls[j].err
        /\ BuildsOver(calls[k], calls[i].err)
        /\ IsChild(calls[k].ret, calls[i].err)
        /\ calls[i].out = calls[j].out
        /\ calls[j].out = Rendering(calls[i].err)

-----------------------------------------------------------------------------
(* The caller whose frame runtime.Caller cannot always recover.            *)

\* where the runtime sees the caller: at the call site, or nowhere
Frames(site) == {site, Unresolved}

CallLost(op, err, args, opts, site, where) ==
    [op |-> op, err |-> err, args |-> args, opts |-> opts, loc |-> NoLoc,
     site |-> site, ret |-> NIL, lost |-> where = Unresolved]

\* err := terr.Newf(format, a...), the caller's frame recovered or not
DoNewfLost ==
    \E n \in 0..(MaxCost - cost - 1) : \E args \in Args(n) : \E where \in Frames(Site) :
        Record(CallLost("Newf", NIL, args, <<>>, Site, where),
               IF rev = "terr.go" THEN Newf(heap, Lit(Site), args, where)
               ELSE NewfAny(heap, Lit(Site), args, where),
               1 + n)

\* err := terr.Trace(e), the caller's frame recovered or not
DoTraceLost ==
    /\ cost + 2 <= MaxCost
    /\ \E e \in Held \cup {NIL} : \E where \in Frames(Site) :
        Record(CallLost("Trace", e, <<>>, <<>>, Site, where),
               IF rev = "terr.go" THEN Trace(heap, e, where)
               ELSE TraceOpts(heap, e, <<>>, where),
               2)

\* err := terr.Trace(e, opt), the caller's frame recovered or not
DoTraceOptsLost ==
    /\ rev = "part_004"
    /\ \E e \in Held \cup {NIL} : \E o1 \in Options(MaxCost - cost - 2) :
       \E where \in Frames(Site) :
          /\ cost + 1 + OptionCost(o1) <= MaxCost
          /\ Record(CallLost("TraceOpts", e, <<>>, <<o1>>, Site, where),
                    TraceOpts(heap, e, <<o1>>, where),
                    1 + OptionCost(o1))

NextLost ==
    \/ DoNewfLost
    \/ DoTraceLost
    \/ DoTraceOptsLost

SpecLost == InitChain /\ [][NextLost]_vars

\* the calls made where the frame was not recovered
LostCalls == {i \in DOMAIN calls : "lost" \in DOMAIN calls[i] /\ calls[i].lost}

\* the node the same call builds where its frame is recovered
Otherwise(c) ==
    LET r == CASE c.op = "Newf" ->
                    IF rev = "terr.go" THEN Newf(heap, Lit(c.site), c.args, c.site)
                    ELSE NewfAny(heap, Lit(c.site), c.args, c.site)
               [] c.op = "Trace" /\ rev = "terr.go" -> Trace(heap, c.err, c.site)
               [] OTHER -> TraceOpts(heap, c.err, c.opts, c.site)
    IN  [msg |-> MsgOf(r.heap, r.ret), children |-> Children(r.heap, r.ret),
         loc |-> Location(r.heap, r.ret)]

\* C26: if stack introspection cannot resolve the requested frame, every
\* construction operation still returns a non-nil node with a structurally
\* valid location (empty file name, line 0), the same message and the same
\* children as otherwise; it neither returns an error nor fails.  (Only nil
\* traced gives nil, and a WithLocation option still sets the location.)
C26_UnresolvedFrame ==
    \A i \in LostCalls :
        LET c == calls[i]
        IN  IF c.op # "Newf" /\ c.err = NIL THEN c.ret = NIL
            ELSE /\ c.ret \in Nodes
                 /\ MsgOf(heap, c.ret) = Otherwise(c).msg
                 /\ Children(heap, c.ret) = Otherwise(c).children
                 /\ IF \E k \in DOMAIN c.opts : c.opts[k].opt = "WithLocation"
                    THEN Location(heap, c.ret) = Otherwise(c).loc
                    ELSE Location(heap, c.ret) = location("", 0)

C26_Witness ==
    \E i, j \in LostCalls :
        /\ calls[i].op = "Newf" /\ calls[j].op \in {"Trace", "TraceOpts"}
        /\ calls[j].err = calls[i].ret
        /\ Len(Children(heap, calls[i].ret)) = 1
        /\ Location(heap, calls[i].ret) = location("", 0)
        /\ Location(heap, calls[j].ret) = location("", 0)
        /\ Children(heap, calls[j].ret) = <<calls[i].ret>>
        /\ Otherwise(calls[i]).loc = location("main.go", calls[i].site.line)

-----------------------------------------------------------------------------
\* the number of times x occurs in the sequence cs
Count(cs, x) == Cardinality({j \in DOMAIN cs : cs[j] = x})

\* the values handed to a call as candidate children, in order: the operands
\* of Newf, the traced error of Trace and the lists of its WithChildren
Candidates(c) ==
    IF c.op = "Newf" THEN Operands(c.args)
    ELSE <<c.err>> \o Concat([k \in DOMAIN c.opts |-> c.opts[k].children])

RECURSIVE PathCount(_)
\* the number of paths that start at n and follow Children()
PathCount(n) ==
    LET cs == Children(heap, n)
        counts == [j \in DOMAIN cs |-> PathCount(cs[j])]
        Sum[k \in 0..Len(cs)] == IF k = 0 THEN 0 ELSE Sum[k - 1] + counts[k]
    IN  1 + Sum[Len(cs)]

\* C27: the trace tree is never deduplicated: a traced error passed k times
\* to one Newf call, or reachable both as the automatic child and through
\* WithChildren, appears k times among the children, and a node shared by
\* several parents or paths is rendered once per path: the number of %@ lines
\* is the number of root-to-node paths, not the number of distinct nodes.
C27_NoDedup ==
    /\ \A i \in DOMAIN calls :
          (calls[i].op \in TraceOps \cup {"Newf"} /\ calls[i].ret # NIL) =>
              \A t \in Traced :
                  Count(Children(heap, calls[i].ret), t) = Count(Candidates(calls[i]), t)
    /\ \A n \in Nodes : Len(treeRepr(heap, n, 0)) = PathCount(n)

C27_Witness ==
    \E i \in DOMAIN calls : \E t \in Traced :
        LET c == calls[i]
        IN  /\ c.op \in {"Newf", "TraceOpts"} /\ c.ret # NIL
            /\ Count(Candidates(c), t) = 2
            /\ Children(heap, c.ret) = <<t, t>>
            /\ Len(treeRepr(heap, c.ret, 0)) = 3
            /\ PathCount(c.ret) = 3
            /\ Cardinality(Tree(c.ret)) = 2

-----------------------------------------------------------------------------
(* The caller whose own tree-node type returns itself from Children().     *)

\* the caller's errors, its tree node being its own child
LoopHeap == [BaseHeap EXCEPT ![2].children = <<2>>]

InitLoop ==
    /\ heap = LoopHeap
    /\ calls = <<>>
    /\ cost = 0
    /\ rev \in Revs
    /\ Sequential

NextLoop ==
    \/ DoNewf
    \/ DoTrace

SpecLoop == InitLoop /\ [][NextLoop]_vars

RECURSIVE Descend(_, _)
\* the values that a walk over Children() visits from the values of todo,
\* besides those of seen
Descend(todo, seen) ==
    IF todo = {} THEN seen
    ELSE LET n == CHOOSE n \in todo : TRUE
             cs == {Children(heap, n)[j] : j \in DOMAIN Children(heap, n)}
         IN  Descend((todo \cup cs) \ (seen \cup {n}), seen \cup {n})

\* the descendants of n
Below(n) == Descend({Children(heap, n)[j] : j \in DOMAIN Children(heap, n)}, {})

\* C28: after any finite sequence of construction operations the child
\* relation is acyclic (every child of a node was constructed strictly before
\* the node, and no node is its own descendant), so %@ rendering and any
\* recursive walk over Children() terminate for every reachable node, and the
\* type assertion inside the renderer never fails on a reachable tree.
C28_Acyclic ==
    \A n \in Nodes :
        /\ \A j \in DOMAIN Children(heap, n) : Children(heap, n)[j] < n
        /\ \A m \in Below(n) \cup {n} : m \notin Below(m) /\ assertNode(heap, m)

-----------------------------------------------------------------------------
\* the lines of the %@ rendering of n, one entry of the renderer each
Render(n) == treeRepr(heap, n, 0)

\* every line prefixed with one more tab
Indent(ls) == [k \in DOMAIN ls |-> <<"\t">> \o ls[k]]

\* the number of lines of the renderings of the first i elements of cs
LinesBefore(cs, i) ==
    LET Sum[k \in 0..i] == IF k = 0 THEN 0 ELSE Sum[k - 1] + Len(Render(cs[k]))
    IN  Sum[i]

\* C29: rendering is compositional: for every node p with children c1..ck,
\* render(p) is p's own line followed by, for i = 1..k in order, the lines of
\* render(ci) each prefixed with one more tab; so the line count of render(p)
\* is 1 plus the sum of the line counts of the render(ci), and every child's
\* block is contiguous.
C29_Compositional ==
    \A p \in Nodes :
        LET cs == Children(heap, p)
        IN  /\ Render(p) = <<LineOf(p, 0)>> \o Concat([i \in DOMAIN cs |-> Indent(Render(cs[i]))])
            /\ Len(Render(p)) = 1 + LinesBefore(cs, Len(cs))
            /\ \A i \in DOMAIN cs :
                  SubSeq(Render(p), 2 + LinesBefore(cs, i - 1), 1 + LinesBefore(cs, i))
                      = Indent(Render(cs[i]))
            /\ Format(heap, p, NoFlags, "@") = Unlines(Render(p))

C29_Witness ==
    \E p \in Nodes :
        LET cs == Children(heap, p)
        IN  /\ Len(cs) = 2 /\ cs[1] > cs[2]
            /\ Len(Render(p)) = 3
            /\ Render(p)[2] = <<"\t">> \o LineOf(cs[1], 0)
            /\ Render(p)[3] = <<"\t">> \o LineOf(cs[2], 0)

-----------------------------------------------------------------------------
\* the positions of the options of call c that are of the given kind
OptionsOf(c, kind) == {k \in DOMAIN c.opts : c.opts[k].opt = kind}

\* the options of call c with those at positions k and m exchanged
Swapped(c, k, m) ==
    [j \in DOMAIN c.opts |->
        IF j = k THEN c.opts[m] ELSE IF j = m THEN c.opts[k] ELSE c.opts[j]]

\* the node that Trace(c.err, opts...) builds at the call site of c
TraceWith(c, opts) ==
    LET r == TraceOpts(heap, c.err, opts, c.site) IN r.heap[r.ret]

\* C30: in Trace(err, opts...) the options are applied left to right after
\* the automatic child has been attached: with several WithLocation options
\* the last one determines Location(); the children are the automatic child
\* followed by the traced elements of each WithChildren option in option
\* order; and swapping a WithLocation option with a WithChildren option does
\* not change the resulting node.
C30_OptionOrder ==
    \A i \in OptionCalls :
        LET c == calls[i]
            locs == OptionsOf(c, "WithLocation")
            lists == OptionsOf(c, "WithChildren")
            last == CHOOSE k \in locs : \A m \in locs : m <= k
        IN  /\ locs # {} =>
                  Location(heap, c.ret) = location(c.opts[last].file, c.opts[last].line)
            /\ locs = {} => Location(heap, c.ret) = location(c.site.file, c.site.line)
            /\ Children(heap, c.ret) =
                  TracedOf(<<c.err>>)
                      \o Concat([k \in DOMAIN c.opts |->
                                    IF k \in lists THEN TracedOf(c.opts[k].children)
                                    ELSE <<>>])
            /\ \A k \in locs : \A m \in lists :
                  TraceWith(c, Swapped(c, k, m)) = heap[c.ret]

C30_Witness ==
    \E i \in OptionCalls :
        LET c == calls[i]
        IN  /\ c.err \in Traced
            /\ c.opts[1].opt = "WithChildren" /\ Len(c.opts) = 2
            /\ c.opts[2] = WithLocation("custom.go", 123)
            /\ Len(Children(heap, c.ret)) = 2
            /\ Children(heap, c.ret)[1] = c.err
            /\ Children(heap, c.ret)[2] # c.err
            /\ Location(heap, c.ret) = location("custom.go", 123)
            /\ TraceWith(c, <<c.opts[2], c.opts[1]>>) = heap[c.ret]

====
